---- MODULE Spec2Model ----
(***************************************************************************)
(* Model of the native-shell backend of UpDown (src/src-tauri/src/lib.rs): *)
(* the RecentFiles store and its persisted record, the PendingFile slot,   *)
(* the OS open-event handler, the live push to the UI and the Open Recent  *)
(* submenu.                                                                *)
(*                                                                         *)
(* Execution contexts: command invocations (add_recent_file,               *)
(* get_opened_file) run on command threads; menu-event and RunEvent         *)
(* callbacks run on the event-loop thread.  The two managed states are     *)
(* Mutex-protected; a section of code that holds a MutexGuard is split     *)
(* into the steps it makes while holding it.                               *)
(*                                                                         *)
(* A path is an index into a pool of distinct strings; Chars(p) is the     *)
(* character sequence of path p, used where the code looks inside the      *)
(* string (escaping for the live push).                                    *)
(***************************************************************************)
EXTENDS Naturals, Integers, Sequences, FiniteSets, TLC

\* const MAX_RECENT: usize = 10;
MAX_RECENT == 10

\* ---- bounds of the model ----
\* number of distinct path strings in the pool
NumPaths == 12
\* number of command threads that can run a command at the same time
NumCmd == 2
\* number of path strings the commands and OS events draw from, except in SpecAdd
NumLive == 2
\* number of handler invocations (commands, menu clicks, OS events) in a run of Spec
MaxOps == 2
\* number of add_recent_file commands and clear_recent clicks in a run of SpecStore
MaxStoreOps == 2
\* number of mutations after setup in a run of SpecLoad
MaxLoadOps == 2
\* number of OS open events and get_opened_file commands in a run of SpecPending
MaxPendingOps == 3
\* number of add_recent_file calls in a run of SpecAdd
MaxAdds == 12
\* number of add_recent_file commands and clear_recent clicks in a run of SpecMenu
MaxMenuOps == 2
\* number of install_quicklook_plugin invocations in a run of SpecInstall
MaxInstalls == 2

Paths == 1..NumPaths
Cmds == 1..NumCmd
MainT == NumCmd + 1
Threads == 1..(NumCmd + 1)

\* ---- strings ----
\* The first pool entries are strings with the characters the code treats
\* specially (path separators, backslash, single quote); the others are
\* plain file names under /d/.
Letters == <<"a", "b", "c", "d", "e", "f", "g", "h", "i", "j", "k", "l", "m",
             "n", "o", "p", "q", "r", "s", "t", "u", "v", "w", "x", "y", "z">>

RECURSIVE Name(_)
Name(n) ==
    IF n <= Len(Letters) THEN <<Letters[n]>>
    ELSE Name(((n - 1) \div Len(Letters))) \o <<Letters[((n - 1) % Len(Letters)) + 1]>>

Chars(p) ==
    CASE p = 1 -> <<"/", "x", "/", "i", "t", "'", "s", ".", "m", "d">>
      [] p = 2 -> <<"C", ":", "\\", "a", "\\", "b", ".", "m", "d">>
      [] p = 3 -> <<"p", "l", "a", "i", "n", "n", "a", "m", "e">>
      [] OTHER -> <<"/", "d", "/">> \o Name(p)

\* ---- sequences (Vec<String>) ----
None == <<>>
Some(x) == <<x>>

Range(s) == {s[i] : i \in 1..Len(s)}
NoDup(s) == \A i, j \in 1..Len(s) : i # j => s[i] # s[j]

\* Vec::retain(|p| p != &path)
Retain(s, path) == SelectSeq(s, LAMBDA q : q # path)
\* Vec::insert(0, path)
Insert0(s, path) == <<path>> \o s
\* Vec::truncate(n)
Truncate(s, n) == IF Len(s) > n THEN SubSeq(s, 1, n) ELSE s
\* Iterator::take(n).collect()
Take(s, n) == IF Len(s) > n THEN SubSeq(s, 1, n) ELSE s

\* ---- the recent-files store (pure parts) ----

\* History only: the order of latest add, the path just added first.
MoveToFront(order, path) == <<path>> \o SelectSeq(order, LAMBDA q : q # path)

\* add_recent_file without the retain: an entry added twice stays twice
AddRecentNoRetain(fs, path) == Truncate(Insert0(fs, path), MAX_RECENT)

\* add_recent_file truncating before the insert
AddRecentTruncateFirst(fs, path) == Insert0(Truncate(Retain(fs, path), MAX_RECENT), path)

\* add_recent_file, the update made while the guard is held:
\*   files.retain(|p| p != &path); files.insert(0, path); files.truncate(MAX_RECENT);
AddRecent(fs, path) == Truncate(Insert0(Retain(fs, path), path), MAX_RECENT)

\* files.clear()
ClearRecent(fs) == <<>>

\* The persisted record: the file is missing (or unreadable), holds text that
\* is not a JSON array of strings, or holds an array of strings.
Record(kind, data) == [kind |-> kind, data |-> data]
MissingRecord == Record("missing", <<>>)
MalformedRecord == Record("malformed", <<>>)
ArrayRecord(fs) == Record("array", fs)

\* What the environment does to a load: the storage path resolves and the
\* file is read ("ok"), app_data_dir() fails ("no_path"), read_to_string
\* fails ("unreadable").
LoadEnvs == {"ok", "no_path", "unreadable"}

\* serde_json::from_str::<Vec<String>>(&content).unwrap_or_default()
ParseRecord(rec) == IF rec.kind = "array" THEN rec.data ELSE <<>>

\* .into_iter().filter(|p| Path::new(p).exists())
FilterExists(s, ex) == SelectSeq(s, LAMBDA q : q \in ex)

\* load_recent_from_disk cutting to MAX_RECENT before dropping the entries
\* whose target is gone
load_recent_take_first(env, rec, ex) ==
    IF env = "no_path" THEN <<>>
    ELSE IF env = "unreadable" \/ rec.kind = "missing" THEN <<>>
    ELSE FilterExists(Take(ParseRecord(rec), MAX_RECENT), ex)

\* load_recent_from_disk
load_recent_from_disk(env, rec, ex) ==
    IF env = "no_path" THEN <<>>
    ELSE IF env = "unreadable" \/ rec.kind = "missing" THEN <<>>
    ELSE Take(FilterExists(ParseRecord(rec), ex), MAX_RECENT)

\* What the environment does to a save: every step succeeds ("ok"),
\* app_data_dir() fails ("no_path"), create_dir_all fails and with it the
\* write into the directory that is not there ("mkdir_fail"),
\* serde_json::to_string fails ("ser_fail"), fs::write fails ("write_fail").
SaveEnvs == {"ok", "no_path", "mkdir_fail", "ser_fail", "write_fail"}

\* save_recent_to_disk: the record after the call.  Every failure is dropped
\* (return, let _ =, if let Ok) and leaves the record as it was.
save_recent_to_disk(env, rec, fs) ==
    IF env = "ok" THEN ArrayRecord(fs) ELSE rec

\* ---- the live push (pure parts) ----

\* path_str.replace('\\', "\\\\").replace('\'', "\\'")
RECURSIVE Replace(_, _, _)
Replace(s, c, by) ==
    IF s = <<>> THEN <<>>
    ELSE (IF Head(s) = c THEN by ELSE <<Head(s)>>) \o Replace(Tail(s), c, by)

Escape(s) == Replace(Replace(s, "\\", <<"\\", "\\">>), "'", <<"\\", "'">>)

\* format!("window.__openFile && window.__openFile('{}')", escaped)
OpenFileJs(escaped) ==
    <<"window.__openFile && window.__openFile('">> \o escaped \o <<"')">>

\* What the webview does with the script: the single-quoted literal is read
\* up to its closing quote, a backslash taking the next character as it is.
RECURSIVE JsLiteral(_)
JsLiteral(s) ==
    IF s = <<>> \/ Head(s) = "'" \/ Head(s) = "')" THEN <<>>
    ELSE IF Head(s) = "\\" /\ Len(s) >= 2 THEN <<s[2]>> \o JsLiteral(Tail(Tail(s)))
    ELSE <<Head(s)>> \o JsLiteral(Tail(s))

JsArgument(js) == JsLiteral(Tail(js))

\* ---- OS open events ----
\* A URL of an Opened event: a file URL of a path, or a URL of another scheme.
FileUrl(p) == [scheme |-> "file", path |-> p]
OtherUrl == [scheme |-> "other", path |-> 1]

\* urls.into_iter().filter_map(|url| url.to_file_path().ok()).collect()
FilePaths(urls) ==
    LET fileUrls == SelectSeq(urls, LAMBDA u : u.scheme = "file")
    IN  [i \in 1..Len(fileUrls) |-> fileUrls[i].path]

\* files.first()
First(s) == IF s = <<>> THEN None ELSE Some(s[1])

\* a read that leaves the value in the slot
OptionPeek(slot) == [ret |-> slot, left |-> slot]

\* Option::take: the value returned and the value left in the slot
OptionTake(slot) == [ret |-> slot, left |-> None]

\* ---- the Open Recent submenu (pure parts) ----

\* path.rfind(|c| c == '/' || c == '\\').map(|i| &path[i + 1..]).unwrap_or(path)
path_basename(s) ==
    LET seps == {i \in 1..Len(s) : s[i] = "/" \/ s[i] = "\\"}
    IN  IF seps = {} THEN s
        ELSE LET last == CHOOSE i \in seps : \A j \in seps : j <= i
             IN  SubSeq(s, last + 1, Len(s))

DigitChars == <<"0", "1", "2", "3", "4", "5", "6", "7", "8", "9">>

\* the decimal digits of n, as format!("{i}") writes them
RECURSIVE Decimal(_)
Decimal(n) ==
    IF n < Len(DigitChars) THEN <<DigitChars[n + 1]>>
    ELSE Decimal(n \div Len(DigitChars)) \o <<DigitChars[(n % Len(DigitChars)) + 1]>>

\* format!("recent_{i}")
RecentId(i) == <<"recent_">> \o Decimal(i)

MenuEntry(id, label, enabled) ==
    [kind |-> "item", id |-> id, label |-> label, enabled |-> enabled]
Separator == [kind |-> "separator", id |-> <<>>, label |-> <<>>, enabled |-> FALSE]
NoRecentItem == MenuEntry(<<"no_recent">>, <<"No Recent Items">>, FALSE)
ClearItem == MenuEntry(<<"clear_recent">>, <<"Clear Recent Items">>, TRUE)

\* the items of a rebuild that counts the entries from 1
RecentItemsFromOne(fs) ==
    IF fs = <<>> THEN <<NoRecentItem>>
    ELSE [i \in 1..Len(fs) |->
              MenuEntry(RecentId(i), path_basename(Chars(fs[i])), TRUE)]
         \o <<Separator, ClearItem>>

\* The items appended for a list of files: the placeholder for the empty
\* list, else one item per entry (enumerate() counts from 0), a separator and
\* the clear item.
RecentItems(fs) ==
    IF fs = <<>> THEN <<NoRecentItem>>
    ELSE [i \in 1..Len(fs) |->
              MenuEntry(RecentId(i - 1), path_basename(Chars(fs[i])), TRUE)]
         \o <<Separator, ClearItem>>

\* str::parse::<usize>() of the text after "recent_": None unless every
\* character is a decimal digit (an optional leading "+" is not produced by
\* any menu item and is left out)
RECURSIVE DigitsValue(_, _)
DigitsValue(s, acc) ==
    IF s = <<>> THEN acc
    ELSE LET d == CHOOSE k \in 1..Len(DigitChars) : DigitChars[k] = Head(s)
         IN  DigitsValue(Tail(s), acc * Len(DigitChars) + (d - 1))

ParseUsize(s) ==
    IF s # <<>> /\ \A i \in 1..Len(s) : s[i] \in Range(DigitChars)
    THEN Some(DigitsValue(s, 0))
    ELSE None

\* id.starts_with("recent_")
IsRecentId(id) == id # <<>> /\ Head(id) = "recent_"

\* Vec::get(idx).cloned(), idx counted from 0
GetCloned(fs, idx) == IF idx + 1 <= Len(fs) THEN Some(fs[idx + 1]) ELSE None

\* ---- the Open Recent submenu as setup builds it ----
\* MenuItem::with_id(app, "no_recent", "No Recent Items", false, None)
no_recent == MenuEntry(<<"no_recent">>, <<"No Recent Items">>, FALSE)
\* MenuItem::with_id(app, "clear_recent", "Clear Recent Items", true, None)
clear_init == MenuEntry(<<"clear_recent">>, <<"Clear Recent Items">>, TRUE)

\* SubmenuBuilder::item and SubmenuBuilder::separator: the builder's items
BuilderItem(builder, item) == Append(builder, item)
BuilderSeparator(builder) == Append(builder, Separator)

\* for (i, path) in initial_recent.iter().enumerate() { .. }, from index i on
RECURSIVE BuilderRecent(_, _, _)
BuilderRecent(builder, fs, i) ==
    IF i >= Len(fs) THEN builder
    ELSE BuilderRecent(
             BuilderItem(builder,
                         MenuEntry(RecentId(i), path_basename(Chars(fs[i + 1])), TRUE)),
             fs, i + 1)

\* the startup construction leaving out the separator
StartupItemsNoSeparator(fs) ==
    IF fs = <<>> THEN BuilderItem(<<>>, no_recent)
    ELSE BuilderItem(BuilderRecent(<<>>, fs, 0), clear_init)

\* Lines 260-274: the items of the submenu recent_builder.build() makes
StartupItems(fs) ==
    IF fs = <<>> THEN BuilderItem(<<>>, no_recent)
    ELSE BuilderItem(BuilderSeparator(BuilderRecent(<<>>, fs, 0)), clear_init)

\* ---- the Quick Look installer (pure parts) ----
\* PathBuf::join
Join(dir, name) == dir \o "/" \o name

\* app.path().resource_dir(), when it resolves
ResourceDir == "/Applications/UpDown.app/Contents/Resources"
\* resource_dir.join("resources").join("UpDownQuickLook.app")
SrcPath == Join(Join(ResourceDir, "resources"), "UpDownQuickLook.app")
\* resource_dir.join("UpDownQuickLook.app")
AltSrcPath == Join(ResourceDir, "UpDownQuickLook.app")
\* std::env::var("HOME"), when it is set
Home == "/Users/u"
\* PathBuf::from(&home).join("Applications")
AppsDirPath == Join(Home, "Applications")
\* apps_dir.join("UpDownQuickLook.app")
DestPath == Join(AppsDirPath, "UpDownQuickLook.app")
\* the extension component inside a bundle, relative to the bundle
AppexEntry == Join(Join("Contents", "PlugIns"), "UpDownPreview.appex")
\* dest.join("Contents").join("PlugIns").join("UpDownPreview.appex")
AppexPath == Join(DestPath, AppexEntry)

\* Result<String, String>; the message is kept as its parts
NoResult == [kind |-> "none", msg |-> <<>>]
Ok(msg) == [kind |-> "ok", msg |-> msg]
Err(msg) == [kind |-> "err", msg |-> msg]

\* the messages of install_quicklook_plugin and install_ql_from
ErrUnsupported == Err(<<"Quick Look is only available on macOS">>)
ErrResourceDir == Err(<<"Failed to get resource dir: ", "(io error)">>)
ErrNotFound ==
    Err(<<"Quick Look app not found in app bundle. Checked:\n  ", SrcPath, "\n  ", AltSrcPath>>)
ErrHome == Err(<<"Cannot determine HOME directory">>)
ErrCreate == Err(<<"Failed to create ", AppsDirPath, ": ", "(io error)">>)
ErrRemove == Err(<<"Failed to remove old Quick Look app: ", "(io error)">>)
ErrCopy == Err(<<"Failed to copy Quick Look app: ", "(io error)">>)
OkInstalled == Ok(<<"Quick Look extension installed to ", DestPath>>)

\* What is at the destination: nothing, or a directory holding what is left
\* of the installation found there (prev) and the entries copied into it
\* (new), the last of them possibly cut short (torn).
NoDest == [exists |-> FALSE, prev |-> "none", new |-> <<>>, torn |-> FALSE]
OldDest == [exists |-> TRUE, prev |-> "full", new |-> <<>>, torn |-> FALSE]

\* The bundles a candidate location can hold, as the entries read_dir and
\* the recursion visit, in visiting order.
BundleA == <<"Contents/Info.plist", AppexEntry, "Contents/MacOS/UpDownQuickLook">>
BundleB == <<"Contents/Info.plist", "Contents/MacOS/UpDownQuickLook">>
BundleC == <<AppexEntry>>
Absent == <<"(absent)">>

\* The environments an installation can start in: the platform of the
\* build, whether resource_dir() resolves, what the two candidate locations
\* hold, whether HOME is set, whether ~/Applications exists, and what is at
\* the destination.  A destination exists only inside an existing directory.
InstEnvs ==
    [os : {"macos", "other"}, resOk : BOOLEAN,
     cand : {<<BundleA, BundleB>>, <<BundleB, Absent>>, <<Absent, BundleA>>,
             <<Absent, BundleC>>, <<Absent, Absent>>},
     home : BOOLEAN, fs : {[appsDir |-> FALSE, dest |-> NoDest],
                           [appsDir |-> TRUE, dest |-> NoDest],
                           [appsDir |-> TRUE, dest |-> OldDest]}]

\* the installer before an invocation in environment e
InstStart(e) ==
    [pc |-> "idle", os |-> e.os, resOk |-> e.resOk, cand |-> e.cand, home |-> e.home,
     appsDir |-> e.fs.appsDir, dest |-> e.fs.dest,
     appsDir0 |-> e.fs.appsDir, dest0 |-> e.fs.dest,
     src |-> 0, trace |-> <<>>, calls |-> <<>>, result |-> NoResult, n |-> 0]

InstIdle ==
    InstStart([os |-> "macos", resOk |-> TRUE, cand |-> <<BundleA, Absent>>, home |-> TRUE,
               fs |-> [appsDir |-> TRUE, dest |-> NoDest]])

\* an external command, as issued: the program, its arguments, and whether
\* output() returned Ok
Call(program, args, ok) == [program |-> program, args |-> args, ok |-> ok]

\* ---- state ----
VARIABLES
    phase,       \* "init" after construction, "running" once setup has run,
                 \* "terminated" once the process has ended in a panic
    files,       \* RecentFiles: the Vec<String> behind the mutex
    recentLock,  \* the threads holding the RecentFiles mutex (none or one)
    disk,        \* the persisted recent-files record
    fsExists,    \* the paths whose target exists on the file system
    pending,     \* PendingFile: the Option<String> behind its mutex
    window,      \* the "main" webview window exists
    uiReady,     \* the page has defined window.__openFile
    menu,        \* the items of the "open_recent" submenu, in order
    pc,          \* where each thread is in the handler it runs
    arg,         \* the path a handler works on
    snap,        \* rebuild_recent_menu's clone of the list
    ret,         \* the last value get_opened_file returned to each thread
    lastEval,    \* the last script handed to window.eval
    uiGot,       \* the last argument window.__openFile was called with
    ops,         \* handler invocations so far
    \* history, read by the properties only
    loadEnv,     \* what the environment did to the load of setup
    addOrder,    \* the paths added since the list was last empty, latest add first
    prevFiles,   \* the list as it was when the last mutation took the lock
    saved,       \* whether the last save wrote the record: "ok", "failed", or "none" before the first
    log,         \* the Opened events, get_opened_file returns and evals, in order
    rb,          \* the rebuild under way or last made: whether it overlapped another,
                 \* removed every item it found, appended every item it made
    inst         \* install_quicklook_plugin: its position, the file system it works on,
                 \* the external calls it issued and its result

vars == <<phase, files, recentLock, disk, fsExists, pending, window, uiReady,
          menu, pc, arg, snap, ret, lastEval, uiGot, ops, loadEnv, addOrder,
          prevFiles, saved, log, rb, inst>>

storeVars == <<files, recentLock, disk, prevFiles, saved, addOrder>>
pendingVars == <<pending, log>>
uiVars == <<window, uiReady, lastEval, uiGot>>
menuVars == <<menu, pc, arg, snap, ret, ops, rb>>
envVars == <<phase, fsExists, loadEnv>>

\* ---- initial states ----
Iota(n) == [i \in 1..n |-> i]

\* The arrays a persisted record may hold: what the program wrote in an
\* earlier run, and what a user or another program put there.
RecordArrays ==
    { <<>>, <<1, 2>>, <<3, 1, 2>>, <<2, 1, 2>>,
      Iota(MAX_RECENT), Iota(NumPaths) }

DiskRecords == {MissingRecord, MalformedRecord} \cup {ArrayRecord(a) : a \in RecordArrays}

ExistSets == {Paths, Paths \ {2}, Paths \ {1, 3}, {}}

\* .manage(PendingFile(Mutex::new(None))).manage(RecentFiles(Mutex::new(vec![])))
InitAll(records, exists, insts) ==
    /\ phase = "init"
    /\ files = <<>>
    /\ recentLock = {}
    /\ disk \in records
    /\ fsExists \in exists
    /\ pending = None
    /\ window = FALSE
    /\ uiReady = FALSE
    /\ menu = <<>>
    /\ pc = [t \in Threads |-> "idle"]
    /\ arg = [t \in Threads |-> None]
    /\ snap = [t \in Threads |-> <<>>]
    /\ ret = [t \in Threads |-> None]
    /\ lastEval = <<>>
    /\ uiGot = None
    /\ ops = 0
    /\ loadEnv = "ok"
    /\ addOrder = <<>>
    /\ prevFiles = <<>>
    /\ saved = "none"
    /\ log = <<>>
    /\ rb = [raced |-> FALSE, removed |-> TRUE, created |-> TRUE]
    /\ inst \in insts

InitWith(records, exists) == InitAll(records, exists, {InstIdle})


\* ---- setup ----
\* .setup(|app| ...): load the persisted list, seed RecentFiles with it and
\* build the Open Recent submenu from it.
Setup(envs) ==
    /\ phase = "init"
    /\ \E env \in envs :
          /\ loadEnv' = env
          /\ files' = load_recent_from_disk(env, disk, fsExists)
    /\ menu' = StartupItems(files')
    /\ phase' = "running"
    /\ UNCHANGED <<recentLock, disk, fsExists, pc, arg, snap, rb, inst, ret, ops, addOrder,
                   prevFiles, saved>>
    /\ UNCHANGED pendingVars
    /\ UNCHANGED uiVars

\* setup when the creation of a menu item or the build of a menu returns
\* Err: the list is seeded (line 238), the `?` returns the error from the
\* closure, build() returns it, and .expect(..) at line 392 panics on the
\* main thread.
SetupFails(envs) ==
    /\ phase = "init"
    /\ \E env \in envs :
          /\ loadEnv' = env
          /\ files' = load_recent_from_disk(env, disk, fsExists)
    /\ phase' = "terminated"
    /\ UNCHANGED <<recentLock, disk, fsExists, menu, pc, arg, snap, rb, inst, ret, ops,
                   addOrder, prevFiles, saved>>
    /\ UNCHANGED pendingVars
    /\ UNCHANGED uiVars

\* ---- the UI ----
\* The main window comes to exist; later its page defines window.__openFile.
CreateWindow ==
    /\ phase = "running"
    /\ ~window
    /\ window' = TRUE
    /\ UNCHANGED <<uiReady, lastEval, uiGot, menu, pc, arg, snap, rb, inst, ret, ops>>
    /\ UNCHANGED storeVars
    /\ UNCHANGED pendingVars
    /\ UNCHANGED envVars

UiRegister ==
    /\ window
    /\ ~uiReady
    /\ uiReady' = TRUE
    /\ UNCHANGED <<window, lastEval, uiGot, menu, pc, arg, snap, rb, inst, ret, ops>>
    /\ UNCHANGED storeVars
    /\ UNCHANGED pendingVars
    /\ UNCHANGED envVars

\* History only: an entry of the log.
OpenedEntry(urls, slot) ==
    [op |-> "opened", t |-> MainT, urls |-> urls, val |-> slot, js |-> <<>>]
GetEntry(t, r) ==
    [op |-> "get", t |-> t, urls |-> <<>>, val |-> r, js |-> <<>>]
EvalEntry(at, js) ==
    [op |-> at, t |-> MainT, urls |-> <<>>, val |-> None, js |-> js]

\* open_file_in_running_app: with no "main" window nothing happens; else the
\* script is evaluated, and calls window.__openFile when the page defined it.
OpenFileInRunningApp(p, at) ==
    IF window
    THEN /\ lastEval' = OpenFileJs(Escape(Chars(p)))
         /\ uiGot' = IF uiReady THEN Some(JsArgument(lastEval')) ELSE uiGot
         /\ log' = Append(log, EvalEntry(at, lastEval'))
         /\ UNCHANGED <<window, uiReady>>
    ELSE /\ UNCHANGED uiVars
         /\ UNCHANGED log

\* ---- add_recent_file ----
\* add_recent_file dropping the guard right after the update, before the save
AddBeginEarlyUnlock(t, p) ==
    /\ phase = "running"
    /\ window
    /\ pc[t] = "idle"
    /\ recentLock = {}
    /\ recentLock' = {}
    /\ prevFiles' = files
    /\ files' = AddRecent(files, p)
    /\ addOrder' = MoveToFront(addOrder, p)
    /\ arg' = [arg EXCEPT ![t] = Some(p)]
    /\ pc' = [pc EXCEPT ![t] = "add_save"]
    /\ ops' = ops + 1
    /\ UNCHANGED <<disk, saved, menu, snap, rb, inst, ret>>
    /\ UNCHANGED pendingVars
    /\ UNCHANGED uiVars
    /\ UNCHANGED envVars

\* Lines 109-113: take the lock and update the list.
AddBegin(t, p) ==
    /\ phase = "running"
    /\ window
    /\ pc[t] = "idle"
    /\ recentLock = {}
    /\ recentLock' = {t}
    /\ prevFiles' = files
    /\ files' = AddRecent(files, p)
    /\ addOrder' = MoveToFront(addOrder, p)
    /\ arg' = [arg EXCEPT ![t] = Some(p)]
    /\ pc' = [pc EXCEPT ![t] = "add_save"]
    /\ ops' = ops + 1
    /\ UNCHANGED <<disk, saved, menu, snap, rb, inst, ret>>
    /\ UNCHANGED pendingVars
    /\ UNCHANGED uiVars
    /\ UNCHANGED envVars

\* thread t is inside rebuild_recent_menu
Rebuilding(t) == pc[t] \in {"rb_remove", "rb_clone", "rb_append"}

\* History only: thread t starts a rebuild, alone or while another runs.
EnterRebuild(t) ==
    IF \E u \in Threads \ {t} : Rebuilding(u)
    THEN [rb EXCEPT !.raced = TRUE]
    ELSE [raced |-> FALSE, removed |-> TRUE, created |-> TRUE]

\* a handler that returns early when its save failed
AfterSaveStopOnError(env) == IF env = "ok" THEN "rb_remove" ELSE "idle"

\* Where a handler goes on after its save, whatever the save did.
AfterSave(env) == "rb_remove"

\* a handler that keeps the guard while it goes on to the rebuild
SaveKeepLock(t, at, envs) ==
    /\ pc[t] = at
    /\ \E env \in envs :
          /\ saved' = (IF env = "ok" THEN "ok" ELSE "failed")
          /\ disk' = save_recent_to_disk(env, disk, files)
          /\ pc' = [pc EXCEPT ![t] = AfterSave(env)]
    /\ recentLock' = recentLock
    /\ rb' = EnterRebuild(t)
    /\ UNCHANGED <<files, prevFiles, addOrder, menu, arg, snap, inst, ret, ops>>
    /\ UNCHANGED pendingVars
    /\ UNCHANGED uiVars
    /\ UNCHANGED envVars

\* Lines 114-115 and 350-351: save_recent_to_disk, then the guard is dropped.
SaveAndUnlock(t, at, envs) ==
    /\ pc[t] = at
    /\ \E env \in envs :
          /\ saved' = (IF env = "ok" THEN "ok" ELSE "failed")
          /\ disk' = save_recent_to_disk(env, disk, files)
          /\ pc' = [pc EXCEPT ![t] = AfterSave(env)]
    /\ recentLock' = recentLock \ {t}
    /\ rb' = EnterRebuild(t)
    /\ UNCHANGED <<files, prevFiles, addOrder, menu, arg, snap, inst, ret, ops>>
    /\ UNCHANGED pendingVars
    /\ UNCHANGED uiVars
    /\ UNCHANGED envVars

AddSave(t, envs) == SaveAndUnlock(t, "add_save", envs)

\* ---- rebuild_recent_menu ----
\* What the menu does to the removals of one rebuild: every submenu.remove
\* succeeds ("ok"), the first one fails, or all of them fail.
RemoveEnvs == {"ok", "first_stays", "all_stay"}

\* for item in items { let _ = submenu.remove(..) }: the items left behind
RemoveItems(items, env) ==
    CASE env = "ok" -> <<>>
      [] env = "first_stays" -> IF items = <<>> THEN <<>> ELSE <<items[1]>>
      [] env = "all_stay" -> items

\* What the menu does to the items of one rebuild: every item is created
\* and appended ("ok"), or the first, the last or all of them are not
\* (MenuItem::with_id, PredefinedMenuItem::separator or submenu.append
\* returns Err).
AppendEnvs == {"ok", "first_fails", "last_fails", "all_fail"}

\* if let Ok(item) = .. { let _ = submenu.append(&item); }, item by item:
\* the items that reach the submenu
AppendItems(items, env) ==
    CASE env = "ok" -> items
      [] env = "first_fails" -> Tail(items)
      [] env = "last_fails" -> SubSeq(items, 1, Len(items) - 1)
      [] env = "all_fail" -> <<>>

\* Lines 67-77: remove every item submenu.items() returned; a failed removal
\* is dropped and leaves its item in the submenu.
RebuildRemoveIn(t, envs) ==
    /\ pc[t] = "rb_remove"
    /\ \E env \in envs : menu' = RemoveItems(menu, env)
    /\ rb' = [rb EXCEPT !.removed = (menu' = <<>>)]
    /\ pc' = [pc EXCEPT ![t] = "rb_clone"]
    /\ UNCHANGED <<arg, snap, inst, ret, ops>>
    /\ UNCHANGED storeVars
    /\ UNCHANGED pendingVars
    /\ UNCHANGED uiVars
    /\ UNCHANGED envVars

RebuildRemove(t) == RebuildRemoveIn(t, {"ok"})

\* Line 79: lock, clone, unlock.
RebuildClone(t) ==
    /\ pc[t] = "rb_clone"
    /\ recentLock = {}
    /\ snap' = [snap EXCEPT ![t] = files]
    /\ pc' = [pc EXCEPT ![t] = "rb_append"]
    /\ UNCHANGED <<menu, arg, rb, inst, ret, ops>>
    /\ UNCHANGED storeVars
    /\ UNCHANGED pendingVars
    /\ UNCHANGED uiVars
    /\ UNCHANGED envVars

\* Lines 81-99: append the items for the cloned list; an item that cannot be
\* created or appended is skipped.
RebuildAppendIn(t, envs) ==
    /\ pc[t] = "rb_append"
    /\ \E env \in envs :
          /\ menu' = menu \o AppendItems(RecentItems(snap[t]), env)
          /\ rb' = [rb EXCEPT !.created = (AppendItems(RecentItems(snap[t]), env) = RecentItems(snap[t]))]
    /\ snap' = [snap EXCEPT ![t] = <<>>]
    /\ arg' = [arg EXCEPT ![t] = None]
    /\ pc' = [pc EXCEPT ![t] = "idle"]
    /\ UNCHANGED <<inst, ret, ops>>
    /\ UNCHANGED storeVars
    /\ UNCHANGED pendingVars
    /\ UNCHANGED uiVars
    /\ UNCHANGED envVars

RebuildAppend(t) == RebuildAppendIn(t, {"ok"})

\* ---- get_opened_file ----
\* state.0.lock().unwrap().take(): one operation under the PendingFile mutex.
GetOpenedFile(t) ==
    /\ phase = "running"
    /\ window
    /\ pc[t] = "idle"
    /\ LET r == OptionTake(pending)
       IN  /\ ret' = [ret EXCEPT ![t] = r.ret]
           /\ pending' = r.left
           /\ log' = Append(log, GetEntry(t, r.ret))
    /\ ops' = ops + 1
    /\ UNCHANGED <<menu, pc, arg, snap, rb, inst>>
    /\ UNCHANGED storeVars
    /\ UNCHANGED uiVars
    /\ UNCHANGED envVars

\* ---- menu events (event-loop thread) ----
\* The user can click an item that is in the submenu and enabled.
Clickable(k) == k \in 1..Len(menu) /\ menu[k].kind = "item" /\ menu[k].enabled

\* "clear_recent" => lines 346-349: take the lock and clear the list.
ClickClear(k) ==
    /\ phase = "running"
    /\ pc[MainT] = "idle"
    /\ Clickable(k)
    /\ menu[k].id = <<"clear_recent">>
    /\ recentLock = {}
    /\ recentLock' = {MainT}
    /\ prevFiles' = files
    /\ files' = ClearRecent(files)
    /\ addOrder' = <<>>
    /\ pc' = [pc EXCEPT ![MainT] = "clear_save"]
    /\ ops' = ops + 1
    /\ UNCHANGED <<disk, saved, menu, arg, snap, rb, inst, ret>>
    /\ UNCHANGED pendingVars
    /\ UNCHANGED uiVars
    /\ UNCHANGED envVars

ClearSave(envs) == SaveAndUnlock(MainT, "clear_save", envs)

\* id if id.starts_with("recent_") => lines 355-363: parse the index and
\* look the path up under the lock.
ClickRecent(k) ==
    /\ phase = "running"
    /\ pc[MainT] = "idle"
    /\ Clickable(k)
    /\ menu[k].id # <<"clear_recent">>
    /\ IsRecentId(menu[k].id)
    /\ recentLock = {}
    /\ LET idx == ParseUsize(Tail(menu[k].id))
           path == IF idx = None THEN None ELSE GetCloned(files, idx[1])
       IN  /\ arg' = [arg EXCEPT ![MainT] = path]
           /\ pc' = [pc EXCEPT ![MainT] = IF path = None THEN "idle" ELSE "click_push"]
    /\ ops' = ops + 1
    /\ UNCHANGED <<menu, snap, rb, inst, ret>>
    /\ UNCHANGED storeVars
    /\ UNCHANGED pendingVars
    /\ UNCHANGED uiVars
    /\ UNCHANGED envVars

\* a push that also empties PendingFile
PushStepClearsPending(at) ==
    /\ pc[MainT] = at
    /\ OpenFileInRunningApp(arg[MainT][1], at)
    /\ arg' = [arg EXCEPT ![MainT] = None]
    /\ pc' = [pc EXCEPT ![MainT] = "idle"]
    /\ pending' = None
    /\ UNCHANGED <<menu, snap, rb, inst, ret, ops>>
    /\ UNCHANGED storeVars
    /\ UNCHANGED envVars

\* Lines 363-365 and 409: open_file_in_running_app with the handler's path.
PushStep(at) ==
    /\ pc[MainT] = at
    /\ OpenFileInRunningApp(arg[MainT][1], at)
    /\ arg' = [arg EXCEPT ![MainT] = None]
    /\ pc' = [pc EXCEPT ![MainT] = "idle"]
    /\ UNCHANGED <<pending, menu, snap, rb, inst, ret, ops>>
    /\ UNCHANGED storeVars
    /\ UNCHANGED envVars

ClickPush == PushStep("click_push")

\* ---- RunEvent::Opened (event-loop thread) ----
\* the handler taking files.last()
OpenedPathLast(urls) ==
    LET fs == FilePaths(urls) IN IF fs = <<>> THEN None ELSE Some(fs[Len(fs)])

\* The path the handler uses: files.first() of the URLs that are files.
OpenedPath(urls) == First(FilePaths(urls))

\* a store that keeps a path that was not read yet
SetPendingIfEmpty(slot, file) == IF slot = None THEN file ELSE slot

\* *state.0.lock().unwrap() = Some(path_str.clone())
SetPending(slot, file) == file

\* a handler that delivers through one channel only: the slot is written
\* when there is no window to push to
OpenedStoreIfNoWindow(urls) ==
    /\ phase = "running"
    /\ pc[MainT] = "idle"
    /\ LET file == OpenedPath(urls)
       IN  IF file = None
           THEN UNCHANGED <<pending, arg, pc>>
           ELSE /\ pending' = (IF window THEN pending ELSE SetPending(pending, file))
                /\ arg' = [arg EXCEPT ![MainT] = file]
                /\ pc' = [pc EXCEPT ![MainT] = "ev_push"]
    /\ log' = Append(log, OpenedEntry(urls, pending'))
    /\ ops' = ops + 1
    /\ UNCHANGED <<menu, snap, rb, inst, ret>>
    /\ UNCHANGED storeVars
    /\ UNCHANGED uiVars
    /\ UNCHANGED envVars

\* Lines 396-407: with a path, store it in PendingFile.
OpenedStore(urls) ==
    /\ phase = "running"
    /\ pc[MainT] = "idle"
    /\ LET file == OpenedPath(urls)
       IN  IF file = None
           THEN UNCHANGED <<pending, arg, pc>>
           ELSE /\ pending' = SetPending(pending, file)
                /\ arg' = [arg EXCEPT ![MainT] = file]
                /\ pc' = [pc EXCEPT ![MainT] = "ev_push"]
    /\ log' = Append(log, OpenedEntry(urls, pending'))
    /\ ops' = ops + 1
    /\ UNCHANGED <<menu, snap, rb, inst, ret>>
    /\ UNCHANGED storeVars
    /\ UNCHANGED uiVars
    /\ UNCHANGED envVars

OpenedPush == PushStep("ev_push")

\* ---- install_quicklook_plugin ----
\* the installer returns r without going on
InstFail(r, step) ==
    inst' = [inst EXCEPT !.pc = "done", !.result = r, !.trace = Append(@, step)]

InstFrame ==
    /\ UNCHANGED menuVars
    /\ UNCHANGED storeVars
    /\ UNCHANGED pendingVars
    /\ UNCHANGED uiVars
    /\ UNCHANGED envVars

\* The UI invokes the command.  Off macOS the body is the Err alone.  What
\* is at the destination now is, for this invocation, the previous
\* installation.
InstallBegin ==
    /\ phase = "running"
    /\ window
    /\ inst.pc = "idle"
    /\ LET found == IF inst.dest.exists THEN OldDest ELSE NoDest
       IN  inst' = [inst EXCEPT
                      !.pc = IF inst.os = "macos" THEN "resolve" ELSE "done",
                      !.result = IF inst.os = "macos" THEN NoResult ELSE ErrUnsupported,
                      !.dest = found, !.dest0 = found, !.appsDir0 = inst.appsDir,
                      !.src = 0,
                      !.trace = <<>>, !.calls = <<>>, !.n = @ + 1]
    /\ InstFrame

\* Lines 130-147: resource_dir()?, then src, then alt_src.
InstResolve ==
    /\ inst.pc = "resolve"
    /\ IF ~inst.resOk THEN InstFail(ErrResourceDir, "resource_dir")
       ELSE IF inst.cand[1] # Absent
            THEN inst' = [inst EXCEPT !.pc = "home", !.src = 1,
                                      !.trace = @ \o <<"resource_dir", "src">>]
       ELSE IF inst.cand[2] # Absent
            THEN inst' = [inst EXCEPT !.pc = "home", !.src = 2,
                                      !.trace = @ \o <<"resource_dir", "src", "alt_src">>]
       ELSE inst' = [inst EXCEPT !.pc = "done", !.result = ErrNotFound,
                                 !.trace = @ \o <<"resource_dir", "src", "alt_src">>]
    /\ InstFrame

\* Line 161: std::env::var("HOME")?
InstHome ==
    /\ inst.pc = "home"
    /\ IF inst.home
       THEN inst' = [inst EXCEPT !.pc = "apps_dir", !.trace = Append(@, "home")]
       ELSE InstFail(ErrHome, "home")
    /\ InstFrame

\* an installer that goes on when the directory could not be created
InstAppsDirGoOn ==
    /\ inst.pc = "apps_dir"
    /\ IF inst.appsDir
       THEN inst' = [inst EXCEPT !.pc = "remove"]
       ELSE \/ inst' = [inst EXCEPT !.pc = "remove", !.appsDir = TRUE,
                                    !.trace = Append(@, "create_dir_all")]
            \/ inst' = [inst EXCEPT !.pc = "remove",
                                    !.trace = Append(@, "create_dir_all")]
    /\ InstFrame

\* Lines 164-167: create_dir_all(&apps_dir)? when it does not exist.
InstAppsDir ==
    /\ inst.pc = "apps_dir"
    /\ IF inst.appsDir
       THEN inst' = [inst EXCEPT !.pc = "remove"]
       ELSE \/ inst' = [inst EXCEPT !.pc = "remove", !.appsDir = TRUE,
                                    !.trace = Append(@, "create_dir_all")]
            \/ InstFail(ErrCreate, "create_dir_all")
    /\ InstFrame

\* an installer that copies into what it finds at the destination
InstRemoveMerge ==
    /\ inst.pc = "remove"
    /\ inst' = [inst EXCEPT !.pc = "copy"]
    /\ InstFrame

\* Lines 171-174: remove_dir_all(&dest)? when it exists.  A removal that
\* fails has removed nothing or a part.
InstRemove ==
    /\ inst.pc = "remove"
    /\ IF ~inst.dest.exists
       THEN inst' = [inst EXCEPT !.pc = "copy"]
       ELSE \/ inst' = [inst EXCEPT !.pc = "copy", !.dest = NoDest,
                                    !.trace = Append(@, "remove_dir_all")]
            \/ \E left \in {"full", "partial"} :
                  inst' = [inst EXCEPT !.pc = "done", !.result = ErrRemove,
                                       !.dest.prev = left,
                                       !.trace = Append(@, "remove_dir_all")]
    /\ InstFrame

\* Lines 176-177 and 195: copy_dir_recursive starts with create_dir_all(dst)?
InstCopyBegin ==
    /\ inst.pc = "copy"
    /\ \/ inst' = [inst EXCEPT !.pc = "copy_entries", !.dest.exists = TRUE,
                                !.trace = Append(@, "copy")]
       \/ InstFail(ErrCopy, "copy")
    /\ InstFrame

\* Lines 196-206: the next entry is copied, or read_dir or the copy fails,
\* the entry then missing or cut short; after the last entry the copy
\* returns Ok.
InstCopyEntry ==
    /\ inst.pc = "copy_entries"
    /\ LET bundle == inst.cand[inst.src]
           k == Len(inst.dest.new)
       IN  IF k = Len(bundle)
           THEN inst' = [inst EXCEPT !.pc = "appex"]
           ELSE \/ inst' = [inst EXCEPT !.dest.new = Append(@, bundle[k + 1])]
                \/ \E torn \in BOOLEAN :
                      inst' = [inst EXCEPT !.pc = "done", !.result = ErrCopy,
                                           !.dest.torn = torn]
    /\ InstFrame

\* Lines 179-180: appex.exists()
InstAppex ==
    /\ inst.pc = "appex"
    /\ inst' = [inst EXCEPT !.pc = IF AppexEntry \in Range(inst.dest.new)
                                  THEN "register" ELSE "launch"]
    /\ InstFrame

\* an installer that gives up when an external call fails
AfterCallStopOnError(ok, next) == IF ok THEN next ELSE "done"

\* let _ = Command::new(..).output(): the result is dropped
AfterCall(ok, next) == next

\* the installer issues an external call and goes on
InstCall(at, program, args, step, next) ==
    /\ inst.pc = at
    /\ \E ok \in BOOLEAN :
          inst' = [inst EXCEPT
                     !.pc = AfterCall(ok, next),
                     !.calls = Append(@, Call(program, args, ok)),
                     !.trace = Append(@, step),
                     !.result = IF next = "done" THEN OkInstalled ELSE @]
    /\ InstFrame

\* Line 182: pluginkit -a <appex>
InstRegister == InstCall("register", "pluginkit", <<"-a", AppexPath>>, "register", "enable")

\* Lines 183-185: pluginkit -e use -i com.noam.updown.quicklook.preview
InstEnable ==
    InstCall("enable", "pluginkit",
             <<"-e", "use", "-i", "com.noam.updown.quicklook.preview">>, "enable", "launch")

\* Lines 188-189: /usr/bin/open <dest>, then Ok(..)
InstLaunch == InstCall("launch", "/usr/bin/open", <<DestPath>>, "launch", "done")

\* the result goes back to the UI
InstReturn ==
    /\ inst.pc = "done"
    /\ inst' = [inst EXCEPT !.pc = "idle"]
    /\ InstFrame

\* ---- specifications ----
LivePaths == 1..NumLive

\* The URLs of an Opened event: none, one, or several; files only or mixed
\* with URLs of other schemes.
UrlSeqs ==
    { <<>>, <<OtherUrl>>, <<FileUrl(1)>>, <<FileUrl(2)>>,
      <<FileUrl(1), FileUrl(2)>>, <<FileUrl(2), FileUrl(1)>>,
      <<OtherUrl, FileUrl(2), FileUrl(1)>> }

\* The rebuild every mutation ends with, on thread t.
Rebuild(t) == RebuildRemove(t) \/ RebuildClone(t) \/ RebuildAppend(t)

\* Spec: every handler, on every thread; the record of an earlier run is
\* missing or holds two entries, and loads and saves succeed.
Init == InitWith({MissingRecord, ArrayRecord(<<1, 2>>)}, {Paths})

Next ==
    \/ Setup({"ok"})
    \/ CreateWindow
    \/ UiRegister
    \/ \E t \in Cmds, p \in LivePaths : ops < MaxOps /\ AddBegin(t, p)
    \/ \E t \in Cmds : AddSave(t, {"ok"})
    \/ \E t \in Threads : RebuildRemove(t)
    \/ \E t \in Threads : RebuildClone(t)
    \/ \E t \in Threads : RebuildAppend(t)
    \/ \E t \in Cmds : ops < MaxOps /\ GetOpenedFile(t)
    \/ \E k \in 1..Len(menu) : ops < MaxOps /\ ClickClear(k)
    \/ ClearSave({"ok"})
    \/ \E k \in 1..Len(menu) : ops < MaxOps /\ ClickRecent(k)
    \/ ClickPush
    \/ \E p \in LivePaths : ops < MaxOps /\ OpenedStore(<<FileUrl(p)>>)
    \/ OpenedPush

Spec == Init /\ [][Next]_vars

\* SpecAdd: add_recent_file calls one after the other, starting from the
\* empty list.  Paths are compared for equality only, so a path that was
\* never added before is taken to be the next unused one of the pool.
InitAdd == InitWith({MissingRecord}, {Paths})

AddInputs == Range(addOrder) \cup ({Len(addOrder) + 1} \cap Paths)

NextAdd ==
    \/ Setup({"ok"})
    \/ CreateWindow
    \/ \E p \in AddInputs : ops < MaxAdds /\ AddBegin(1, p)
    \/ AddSave(1, {"ok"})
    \/ RebuildRemove(1)
    \/ RebuildClone(1)
    \/ RebuildAppend(1)

SpecAdd == InitAdd /\ [][NextAdd]_vars

\* SpecStore: add_recent_file commands on the command threads and
\* clear_recent clicks on the event-loop thread, with saves that can fail.
InitStore == InitWith({MissingRecord, ArrayRecord(<<1, 2>>)}, {Paths})

NextStore ==
    \/ Setup({"ok"})
    \/ CreateWindow
    \/ \E t \in Cmds, p \in LivePaths : ops < MaxStoreOps /\ AddBegin(t, p)
    \/ \E t \in Cmds : AddSave(t, SaveEnvs)
    \/ \E t \in Threads : RebuildRemove(t)
    \/ \E t \in Threads : RebuildClone(t)
    \/ \E t \in Threads : RebuildAppend(t)
    \/ \E k \in 1..Len(menu) : ops < MaxStoreOps /\ ClickClear(k)
    \/ ClearSave(SaveEnvs)

SpecStore == InitStore /\ [][NextStore]_vars

\* SpecLoad: setup from every persisted record, file system and load
\* outcome, followed by a few mutations.
InitLoad == InitWith(DiskRecords, ExistSets)

NextLoad ==
    \/ Setup(LoadEnvs)
    \/ CreateWindow
    \/ \E p \in LivePaths : ops < MaxLoadOps /\ AddBegin(1, p)
    \/ AddSave(1, {"ok"})
    \/ \E t \in Threads : RebuildRemove(t)
    \/ \E t \in Threads : RebuildClone(t)
    \/ \E t \in Threads : RebuildAppend(t)
    \/ \E k \in 1..Len(menu) : ops < MaxLoadOps /\ ClickClear(k)
    \/ ClearSave({"ok"})

SpecLoad == InitLoad /\ [][NextLoad]_vars

\* SpecPending: OS open events on the event-loop thread and get_opened_file
\* commands on the command threads.
InitPending == InitWith({MissingRecord}, {Paths})

NextPending ==
    \/ Setup({"ok"})
    \/ CreateWindow
    \/ UiRegister
    \/ \E t \in Cmds : ops < MaxPendingOps /\ GetOpenedFile(t)
    \/ \E urls \in UrlSeqs : ops < MaxPendingOps /\ OpenedStore(urls)
    \/ OpenedPush

SpecPending == InitPending /\ [][NextPending]_vars

\* SpecMenu: the mutations and their rebuilds on every thread, with item
\* removals, creations and appends that can fail.
InitMenu == InitWith({MissingRecord, ArrayRecord(<<1, 2>>), ArrayRecord(<<3, 1, 2>>)}, {Paths})

NextMenu ==
    \/ Setup({"ok"})
    \/ SetupFails({"ok"})
    \/ CreateWindow
    \/ \E t \in Cmds, p \in LivePaths : ops < MaxMenuOps /\ AddBegin(t, p)
    \/ \E t \in Cmds : AddSave(t, {"ok"})
    \/ \E t \in Threads : RebuildRemoveIn(t, RemoveEnvs)
    \/ \E t \in Threads : RebuildClone(t)
    \/ \E t \in Threads : RebuildAppendIn(t, AppendEnvs)
    \/ \E k \in 1..Len(menu) : ops < MaxMenuOps /\ ClickClear(k)
    \/ ClearSave({"ok"})

SpecMenu == InitMenu /\ [][NextMenu]_vars

\* SpecInstall: install_quicklook_plugin invoked by the UI, in every
\* environment, one invocation after the other.
InitInstall == InitAll({MissingRecord}, {Paths}, {InstStart(e) : e \in InstEnvs})

NextInstall ==
    \/ Setup({"ok"})
    \/ CreateWindow
    \/ inst.n < MaxInstalls /\ InstallBegin
    \/ InstResolve
    \/ InstHome
    \/ InstAppsDir
    \/ InstRemove
    \/ InstCopyBegin
    \/ InstCopyEntry
    \/ InstAppex
    \/ InstRegister
    \/ InstEnable
    \/ InstLaunch
    \/ InstReturn

SpecInstall == InitInstall /\ [][NextInstall]_vars

\* ---- properties ----
Min(a, b) == IF a <= b THEN a ELSE b

\* the position of x in s (s holds x once)
IndexOf(s, x) == CHOOSE i \in 1..Len(s) : s[i] = x

\* thread t is inside add_recent_file, past the update of the list
InAdd(t) == pc[t] \in {"add_save", "rb_remove", "rb_clone", "rb_append"} /\ arg[t] # None

\* C1: starting from the empty list, after any sequence of add_recent_file
\* calls the list has no two equal paths, has at most MAX_RECENT entries and
\* is ordered most-recent-first: entry i is the path with the i-th latest
\* add, so the first entry is the path of the last call.
C1_AddSequenceOrdered ==
    /\ NoDup(files)
    /\ Len(files) <= MAX_RECENT
    /\ Len(files) = Min(Len(addOrder), MAX_RECENT)
    /\ \A i \in 1..Len(files) : files[i] = addOrder[i]

\* a list that was full, lost its oldest entry, and then had an entry
\* that was not its first one added again
C1_Witness ==
    /\ pc[1] = "idle"
    /\ Len(addOrder) > MAX_RECENT
    /\ Len(files) = MAX_RECENT
    /\ files[1] # Len(addOrder)

\* C2: add_recent_file(p) on a list L leaves p first; if p was in L the
\* length is unchanged and the other entries keep their order; if p is new
\* the entries of L follow in order, the last one dropped when L was full.
C2_AddMovesToFront ==
    InAdd(1) =>
        LET L == prevFiles
            p == arg[1][1]
        IN  /\ files[1] = p
            /\ p \in Range(L) =>
                  /\ Len(files) = Len(L)
                  /\ \A i \in 2..Len(files) :
                        files[i] = L[IF i - 1 < IndexOf(L, p) THEN i - 1 ELSE i]
            /\ p \notin Range(L) =>
                  /\ Len(files) = Min(Len(L) + 1, MAX_RECENT)
                  /\ \A i \in 2..Len(files) : files[i] = L[i - 1]

\* a new path added to a list of MAX_RECENT entries
C2_Witness ==
    /\ InAdd(1)
    /\ Len(prevFiles) = MAX_RECENT
    /\ arg[1][1] \notin Range(prevFiles)
    /\ Len(files) = MAX_RECENT

\* C3: whenever no mutation is in progress and the last mutation's disk
\* write succeeded, the persisted record is the in-memory list (the empty
\* list after a clear), under every interleaving of add_recent_file commands
\* and clear_recent clicks.
C3_RecordEqualsList ==
    (recentLock = {} /\ saved = "ok") => disk = ArrayRecord(files)

\* a saved add while the rebuild of a clear_recent click is still running
C3_Witness ==
    /\ recentLock = {}
    /\ saved = "ok"
    /\ files # <<>>
    /\ disk = ArrayRecord(files)
    /\ \E t \in Cmds : pc[t] = "rb_remove" /\ arg[t] = Some(files[1])
    /\ pc[MainT] \in {"rb_clone", "rb_append"}

\* thread t makes the save step of its handler, and the save fails
SaveFails(t) ==
    /\ pc[t] \in {"add_save", "clear_save"}
    /\ pc'[t] # pc[t]
    /\ saved' # "ok"

\* C6: a persistence failure during add_recent_file or clear_recent is
\* ignored: the list updated before the save stays as updated, the handler
\* goes on to the menu rebuild with the lock released, and the persisted
\* record is left as it was.
C6_SaveFailureIgnored ==
    [][\A t \in Threads :
          SaveFails(t) =>
             /\ files' = files
             /\ (pc[t] = "add_save" => files[1] = arg[t][1])
             /\ (pc[t] = "clear_save" => files = <<>>)
             /\ disk' = disk
             /\ pc'[t] = "rb_remove"
             /\ recentLock' = {}]_vars

\* an add whose save failed: the list has the path, the record does not,
\* and the rebuild is next
C6_Witness ==
    \E t \in Cmds :
        /\ pc[t] = "rb_remove"
        /\ saved \notin {"ok", "none"}
        /\ recentLock = {}
        /\ arg[t] = Some(files[1])
        /\ disk # ArrayRecord(files)

\* setup has run and no handler has run since
JustLoaded == phase = "running" /\ ops = 0

\* the positions of the record's entries whose target exists
Survivors == {i \in 1..Len(disk.data) : disk.data[i] \in fsExists}

\* the k-th smallest position among the survivors
KthSurvivor(k) == CHOOSE i \in Survivors : Cardinality({j \in Survivors : j <= i}) = k

\* C4: in every reachable state, also the one setup seeds from any persisted
\* array of strings, the list has no two equal entries and at most
\* MAX_RECENT entries.
C4_ListUniqueAndCapped ==
    /\ NoDup(files)
    /\ Len(files) <= MAX_RECENT

\* the part of C4 that does hold in every state: the cap
C4_ListCapped == Len(files) <= MAX_RECENT

\* C5: load_recent_from_disk always returns a list: the empty list when the
\* storage path does not resolve, the record is missing or unreadable, or
\* its content is no array of strings; else the entries whose target exists,
\* in the record's order, cut to the first MAX_RECENT of them.
C5_LoadResult ==
    JustLoaded =>
        IF loadEnv # "ok" \/ disk.kind # "array"
        THEN files = <<>>
        ELSE /\ Len(files) = Min(Cardinality(Survivors), MAX_RECENT)
             /\ \A k \in 1..Len(files) : files[k] = disk.data[KthSurvivor(k)]

\* a record of more than MAX_RECENT entries, one of the first ones gone:
\* the list is full and not the first MAX_RECENT entries of the record
C5_Witness ==
    /\ JustLoaded
    /\ loadEnv = "ok"
    /\ disk.kind = "array"
    /\ Len(disk.data) > MAX_RECENT
    /\ Cardinality(Survivors) < Len(disk.data)
    /\ Len(files) = MAX_RECENT
    /\ files # SubSeq(disk.data, 1, MAX_RECENT)

\* ---- properties of PendingFile, read off the log ----
\* the path of the first file reference of an event, if it has one
FirstFileRef(urls) ==
    LET refs == {i \in 1..Len(urls) : urls[i].scheme = "file"}
    IN  IF refs = {} THEN None
        ELSE Some(urls[CHOOSE i \in refs : \A j \in refs : i <= j].path)

Positions == 1..Len(log)
IsGet(i) == log[i].op = "get"
\* entry i is an Opened event that carried a file reference
IsStore(i) == log[i].op = "opened" /\ FirstFileRef(log[i].urls) # None
IsEventPush(i) == log[i].op = "ev_push"
Last(S) == CHOOSE i \in S : \A j \in S : j <= i

\* what PendingFile holds after the entries before position j: the path of
\* the last event if no get_opened_file came after it
Unread(j) ==
    LET before == {i \in Positions : i < j /\ (IsGet(i) \/ IsStore(i))}
    IN  IF before = {} \/ IsGet(Last(before)) THEN None
        ELSE FirstFileRef(log[Last(before)].urls)

\* C7: get_opened_file reads and clears in one step: of the calls made after
\* an OS open event, on whatever threads, at most one returns a path; a call
\* with no OS open event since the last returning call returns none.
C7_TakenOnce ==
    \A i, j \in Positions :
        (i < j /\ IsGet(i) /\ IsGet(j) /\ log[i].val # None /\ log[j].val # None)
            => \E k \in Positions : i < k /\ k < j /\ IsStore(k)

\* an event, then a call on one thread that returns its path, then a call on
\* another thread that returns none
C7_Witness ==
    \E i \in Positions :
        /\ i + 2 \in Positions
        /\ IsStore(i)
        /\ IsGet(i + 1) /\ log[i + 1].val = FirstFileRef(log[i].urls)
        /\ IsGet(i + 2) /\ log[i + 2].t # log[i + 1].t /\ log[i + 2].val = None
        /\ pending = None

\* C8: PendingFile holds at most one path, each OS open event overwrites it,
\* and get_opened_file returns the path of the last event since the last
\* call (none if there was no event): an earlier unread path is not returned.
C8_LastWriterWins ==
    /\ Len(pending) <= 1
    /\ pending = Unread(Len(log) + 1)
    /\ \A j \in Positions : IsGet(j) => log[j].val = Unread(j)

\* two events with different paths, then a call that returns the second path
C8_Witness ==
    \E i \in Positions :
        /\ i + 2 \in Positions
        /\ IsStore(i) /\ IsStore(i + 1)
        /\ FirstFileRef(log[i].urls) # FirstFileRef(log[i + 1].urls)
        /\ IsGet(i + 2) /\ log[i + 2].val = FirstFileRef(log[i + 1].urls)

\* C10: of an OS open event with file references, the first file reference
\* is the path stored in PendingFile and the path pushed to the UI; no other
\* reference of the event is stored or pushed.
C10_FirstReferenceOnly ==
    /\ \A i \in Positions : IsStore(i) => log[i].val = FirstFileRef(log[i].urls)
    /\ pc[MainT] = "ev_push" =>
          arg[MainT] = FirstFileRef(log[Last({i \in Positions : IsStore(i)})].urls)
    /\ \A j \in Positions : IsEventPush(j) =>
          LET events == {i \in Positions : i < j /\ log[i].op = "opened"}
              pushes == {i \in Positions : i < j /\ IsEventPush(i)}
          IN  /\ events # {}
              /\ IsStore(Last(events))
              /\ pushes # {} => Last(pushes) < Last(events)
              /\ log[j].js = OpenFileJs(Escape(Chars(FirstFileRef(log[Last(events)].urls)[1])))
              /\ JsArgument(log[j].js) = Chars(FirstFileRef(log[Last(events)].urls)[1])

\* an event with two different file references, handled while the page
\* listens: the first one is in PendingFile and reached window.__openFile
C10_Witness ==
    \E i \in Positions :
        /\ i + 1 = Len(log)
        /\ IsStore(i) /\ IsEventPush(i + 1)
        /\ Len(log[i].urls) > 1
        /\ \A k \in 1..Len(log[i].urls) : log[i].urls[k].scheme = "file"
        /\ log[i].urls[1].path # log[i].urls[Len(log[i].urls)].path
        /\ pending = Some(log[i].urls[1].path)
        /\ uiGot = Some(Chars(log[i].urls[1].path))
        /\ pc[MainT] = "idle"

\* C9: a path in PendingFile is changed by nothing but get_opened_file,
\* which returns it and leaves the slot empty, and a later OS open event;
\* the push, add_recent_file, clear_recent, a recent-item click and the menu
\* rebuild leave it alone.  get_opened_file on an empty slot returns none
\* and leaves it empty.
C9_PendingSurvives ==
    [][LET logged == Len(log') = Len(log) + 1
           e == log'[Len(log')]
       IN  /\ pending' # pending =>
                 /\ logged
                 /\ \/ e.op = "get"
                    \/ e.op = "opened" /\ pending' = FirstFileRef(e.urls) /\ pending' # None
           /\ (logged /\ e.op = "get") => (e.val = pending /\ pending' = None)]_vars

\* a path stored before the window existed, still there after the window
\* came up and an add_recent_file with its save and rebuild ran
C9_Witness ==
    /\ log # <<>>
    /\ \A i \in Positions : IsStore(i)
    /\ pending = FirstFileRef(log[Len(log)].urls)
    /\ window
    /\ \A t \in Threads : pc[t] = "idle"
    /\ saved = "ok"
    /\ files # <<>>
    /\ prevFiles # files
    /\ menu = RecentItems(files)

\* the step appends an Opened event that carries a file reference
StoresEvent ==
    /\ Len(log') = Len(log) + 1
    /\ log'[Len(log')].op = "opened"
    /\ FirstFileRef(log'[Len(log')].urls) # None

\* the event-loop thread leaves the push step of the Opened handler
LeavesEventPush == pc[MainT] = "ev_push" /\ pc'[MainT] # "ev_push"

\* C11: for every OS open event that yields a path the handler first stores
\* the path in PendingFile, window or no window, and then makes the live
\* push, which nothing blocks; the push evaluates the open-file script when
\* the main window exists and does nothing when it does not, and in both
\* cases leaves the stored path in PendingFile.
C11_StoreThenPush ==
    /\ [](pc[MainT] = "ev_push" => ENABLED OpenedPush)
    /\ [][/\ StoresEvent =>
                LET file == FirstFileRef(log'[Len(log')].urls)
                IN  /\ pc[MainT] = "idle"
                    /\ pending' = file
                    /\ arg'[MainT] = file
                    /\ pc'[MainT] = "ev_push"
                    /\ UNCHANGED uiVars
          /\ LeavesEventPush =>
                /\ pc'[MainT] = "idle"
                /\ pending' = pending
                /\ IF window
                   THEN /\ log' = Append(log, EvalEntry("ev_push", lastEval'))
                        /\ JsArgument(lastEval') = Chars(arg[MainT][1])
                   ELSE /\ log' = log
                        /\ UNCHANGED uiVars]_vars

\* an event handled to its end before the main window existed: nothing was
\* evaluated and the path is in PendingFile
C11_Witness ==
    /\ Len(log) = 1
    /\ IsStore(1)
    /\ pc[MainT] = "idle"
    /\ ~window
    /\ lastEval = <<>>
    /\ pending = FirstFileRef(log[1].urls)

\* ---- properties of the Open Recent submenu ----
\* the basename of each path of the pool, written out
BaseLabel(p) ==
    CASE p = 1 -> <<"i", "t", "'", "s", ".", "m", "d">>
      [] p = 2 -> <<"b", ".", "m", "d">>
      [] p = 3 -> <<"p", "l", "a", "i", "n", "n", "a", "m", "e">>
      [] OTHER -> Name(p)

\* submenu m is the projection of list L: one disabled placeholder for the
\* empty list; else an enabled item per entry, in order, item i (from 0)
\* with identity recent_<i> and the basename of entry i as label, then one
\* separator and one clear item
IsProjection(m, L) ==
    IF L = <<>>
    THEN /\ Len(m) = 1
         /\ m[1].kind = "item"
         /\ m[1].id = <<"no_recent">>
         /\ ~m[1].enabled
    ELSE /\ Len(m) = Len(L) + 2
         /\ \A i \in 1..Len(L) :
               /\ m[i].kind = "item"
               /\ m[i].enabled
               /\ m[i].id = <<"recent_", DigitChars[i]>>
               /\ m[i].label = BaseLabel(L[i])
         /\ m[Len(L) + 1].kind = "separator"
         /\ m[Len(L) + 2].kind = "item"
         /\ m[Len(L) + 2].id = <<"clear_recent">>
         /\ m[Len(L) + 2].enabled

\* thread t makes the last step of its rebuild
Completes(t) == pc[t] = "rb_append" /\ pc'[t] = "idle"

Quiescent ==
    /\ phase = "running"
    /\ \A t \in Threads : pc[t] \notin {"add_save", "clear_save"} /\ ~Rebuilding(t)

\* C13: under every interleaving of add_recent_file commands and
\* clear_recent clicks, once every rebuild has completed the submenu is the
\* projection of the list: as many entry items as the list has entries, or
\* the one placeholder for the empty list, none duplicated or stale.
C13_MenuProjectsList == Quiescent => IsProjection(menu, files)

\* a step of a handler that has started and not finished
Continue ==
    \/ \E t \in Threads : SaveAndUnlock(t, "add_save", {"ok"})
    \/ SaveAndUnlock(MainT, "clear_save", {"ok"})
    \/ \E t \in Threads : Rebuild(t)
    \/ ClickPush
    \/ OpenedPush

\* C14: no thread is inside rebuild_recent_menu while it holds the
\* RecentFiles lock: the lock has at most one holder, the holder is at its
\* save step (after the update, before the rebuild), so no thread waits for
\* a lock it holds itself, and as long as a handler is unfinished some
\* handler can make a step (no deadlock).
C14_NoRebuildUnderLock ==
    /\ Cardinality(recentLock) <= 1
    /\ \A t \in Threads : Rebuilding(t) => t \notin recentLock
    /\ \A t \in recentLock : pc[t] \in {"add_save", "clear_save"}
    /\ (\E t \in Threads : pc[t] # "idle") => ENABLED Continue

\* a rebuild that waits at its clone for the lock another command holds
C14_Witness ==
    \E t, u \in Threads :
        /\ pc[t] = "rb_clone"
        /\ recentLock = {u}
        /\ u # t
        /\ pc[u] = "add_save"

\* the step is the setup
SetsUp == phase = "init" /\ phase' = "running"

\* C15: for every list, the submenu the startup construction of setup
\* makes is the submenu rebuild_recent_menu makes for the same list: the
\* same items in the same order with the same identities, labels and
\* enabled flags.  The submenu setup leaves is compared with the items of
\* a rebuild for the loaded list, and the submenu a rebuild leaves (made
\* alone, nothing failing) with the items of the startup construction for
\* the list the rebuild read.
C15_StartupEqualsRebuild ==
    [][/\ SetsUp => menu' = RecentItems(files')
       /\ \A t \in Threads :
             (Completes(t) /\ ~rb'.raced /\ rb'.removed /\ rb'.created)
                 => menu' = StartupItems(snap[t])]_vars

\* setup loaded a list of several entries, its first entry was added again,
\* and the rebuild has left the submenu for that same list
C15_Witness ==
    /\ ops = 1
    /\ \A t \in Threads : pc[t] = "idle"
    /\ ~rb.raced
    /\ Len(files) >= 3
    /\ files = prevFiles
    /\ saved = "ok"
    /\ menu = StartupItems(files)

\* ---- properties of the installer ----
\* the steps of the installer, in the order of the procedure
StepOrder ==
    <<"resource_dir", "src", "alt_src", "home", "create_dir_all", "remove_dir_all",
      "copy", "register", "enable", "launch">>

Rank(step) == CHOOSE i \in 1..Len(StepOrder) : StepOrder[i] = step

\* the steps made so far were made in the order of the procedure
InOrder(trace) == \A i, j \in 1..Len(trace) : i < j => Rank(trace[i]) < Rank(trace[j])

\* the invocation has returned
Returned == inst.pc = "done"

\* neither the directory nor the destination was touched
Untouched == inst.appsDir = inst.appsDir0 /\ inst.dest = inst.dest0

\* the step at which each hard error is returned
FailingStep(r) ==
    CASE r = ErrResourceDir -> "resource_dir"
      [] r = ErrNotFound -> "alt_src"
      [] r = ErrHome -> "home"
      [] r = ErrCreate -> "create_dir_all"
      [] r = ErrRemove -> "remove_dir_all"
      [] r = ErrCopy -> "copy"

\* C16: install_quicklook_plugin makes its steps in the fixed order resolve
\* (first candidate, then the fallback), ensure the destination directory,
\* remove the previous installation, copy, register, launch, and returns
\* the first hard error without making a later step: with neither
\* candidate there it returns the error that names both locations and has
\* touched nothing; a failed directory creation, removal or copy is where
\* the procedure ends; with no hard error it returns the success message
\* that contains the install path.
C16_FirstHardErrorStops ==
    /\ InOrder(inst.trace)
    /\ inst.src # 0 => /\ inst.cand[inst.src] # Absent
                       /\ inst.src = 2 => inst.cand[1] = Absent
    /\ (Returned /\ inst.os # "macos") =>
          inst.result = ErrUnsupported /\ inst.trace = <<>> /\ Untouched /\ inst.calls = <<>>
    /\ (Returned /\ inst.os = "macos") =>
          /\ inst.result.kind \in {"ok", "err"}
          /\ (inst.resOk /\ inst.cand[1] = Absent /\ inst.cand[2] = Absent) =>
                /\ inst.result.kind = "err"
                /\ inst.result.msg[2] = ResourceDir \o "/resources/UpDownQuickLook.app"
                /\ inst.result.msg[4] = ResourceDir \o "/UpDownQuickLook.app"
                /\ Untouched
                /\ inst.calls = <<>>
          /\ inst.result.kind = "err" =>
                /\ inst.result \in {ErrResourceDir, ErrNotFound, ErrHome, ErrCreate,
                                    ErrRemove, ErrCopy}
                /\ inst.trace[Len(inst.trace)] = FailingStep(inst.result)
                /\ inst.calls = <<>>
                /\ inst.result = ErrCreate => ~inst.appsDir /\ Untouched
                /\ inst.result = ErrRemove => inst.dest.exists /\ inst.dest.new = <<>>
                /\ inst.result = ErrCopy => inst.dest.new # inst.cand[inst.src]
          /\ inst.result.kind = "ok" =>
                /\ \E i \in 1..Len(inst.result.msg) :
                      inst.result.msg[i] = Home \o "/Applications/UpDownQuickLook.app"
                /\ inst.trace[Len(inst.trace)] = "launch"
                /\ inst.appsDir
                /\ inst.dest = [exists |-> TRUE, prev |-> "none",
                                new |-> inst.cand[inst.src], torn |-> FALSE]

\* an installation over a previous one, from the fallback location, that
\* ended in the copy: the steps up to the copy were made, no call was issued
C16_Witness ==
    /\ Returned
    /\ inst.result = ErrCopy
    /\ inst.trace = <<"resource_dir", "src", "alt_src", "home", "remove_dir_all", "copy">>
    /\ inst.dest0 = OldDest
    /\ inst.dest.new # <<>>
    /\ inst.calls = <<>>

\* the copy step of the invocation has succeeded
CopySucceeded ==
    /\ inst.src # 0
    /\ "copy" \in Range(inst.trace)
    /\ inst.pc \notin {"copy", "copy_entries"}
    /\ inst.result # ErrCopy

\* the external calls of a whole installation, by program and arguments
ExpectedCalls(bundle) ==
    (IF "Contents/PlugIns/UpDownPreview.appex" \in Range(bundle)
     THEN << <<"pluginkit", <<"-a", DestPath \o "/Contents/PlugIns/UpDownPreview.appex">> >>,
             <<"pluginkit", <<"-e", "use", "-i", "com.noam.updown.quicklook.preview">> >> >>
     ELSE <<>>)
    \o << <<"/usr/bin/open", <<DestPath>> >> >>

IssuedCalls == [i \in 1..Len(inst.calls) |-> <<inst.calls[i].program, inst.calls[i].args>>]

IsPrefix(s, t) == Len(s) <= Len(t) /\ s = SubSeq(t, 1, Len(s))

\* C17: once the copy has succeeded the result is the success, whatever
\* the register call, the enable call and the launch return: the calls
\* issued are, in this order, register and enable (only when the extension
\* component is in the installed bundle) and the launch; a failed call does
\* not keep the later ones from being issued.
C17_CallsBestEffort ==
    CopySucceeded =>
        /\ inst.dest.new = inst.cand[inst.src]
        /\ IsPrefix(IssuedCalls, ExpectedCalls(inst.cand[inst.src]))
        /\ inst.pc \in {"done", "idle"} =>
              /\ inst.result.kind = "ok"
              /\ IssuedCalls = ExpectedCalls(inst.cand[inst.src])

\* an installation whose register, enable and launch calls all failed, and
\* whose result is the success
C17_Witness ==
    /\ Returned
    /\ inst.result = OkInstalled
    /\ Len(inst.calls) = 3
    /\ \A i \in 1..Len(inst.calls) : ~inst.calls[i].ok

\* C20: the installer replaces without rollback.  An error from the bundle
\* resolution or from the creation of the destination directory leaves what
\* was at the destination as it was; nothing of the new bundle is at the
\* destination while anything of the previous installation is; after a
\* failed copy the destination holds nothing of the previous installation
\* and a part of the bundle at most.
C20_ReplaceWithoutRollback ==
    /\ (Returned /\ inst.result \in {ErrResourceDir, ErrNotFound, ErrCreate}) =>
          inst.dest = inst.dest0
    /\ (inst.pc = "copy_entries" \/ inst.dest.new # <<>>) => inst.dest.prev = "none"
    /\ (Returned /\ inst.result = ErrCopy) =>
          /\ inst.dest.prev = "none"
          /\ IsPrefix(inst.dest.new, inst.cand[inst.src])
          /\ inst.dest.new # inst.cand[inst.src]

\* a previous installation was removed, the copy failed after its first
\* entry and left the second one cut short
C20_Witness ==
    /\ Returned
    /\ inst.result = ErrCopy
    /\ inst.dest0 = OldDest
    /\ inst.dest.exists
    /\ inst.dest.prev = "none"
    /\ Len(inst.dest.new) = 1
    /\ inst.dest.torn

\* C18: no code path ends the process: every failure, the failure to create
\* a menu item at startup among them, leaves the application running.
C18_NeverTerminates == phase # "terminated"

\* C19: a click on a visible item recent_<i> pushes the entry the item was
\* built from, the one whose basename is the item's label, in every
\* interleaving with add_recent_file commands and clear_recent clicks; a
\* click whose index is out of the range of the list pushes nothing; a
\* click does not change the list or its record.
C19_ClickPushesItemsEntry ==
    [][\A k \in 1..Len(menu) :
          ClickRecent(k) =>
             /\ UNCHANGED <<files, disk>>
             /\ ParseUsize(Tail(menu[k].id))[1] >= Len(files) => pc'[MainT] = "idle"
             /\ pc'[MainT] = "click_push" => BaseLabel(arg'[MainT][1]) = menu[k].label]_vars

====
